---- MODULE Spec2Model ----
(***************************************************************************)
(* twitchpulse: session orchestration and aggregation pipeline.            *)
(*                                                                         *)
(* The backend is one asyncio event loop.  A coroutine runs without        *)
(* interruption from one suspension point (an await that really blocks: a  *)
(* Redis round trip, a sleep, a get on an empty queue, the join of a task  *)
(* that has not finished) to the next, so every action below is one such   *)
(* segment of a handler or task.                                           *)
(***************************************************************************)
EXTENDS Integers, Sequences, FiniteSets, TLC

(***************************************************************************)
(* Bounds of the model.                                                    *)
(***************************************************************************)
\* Queue(maxsize=5_000) in the code; the model keeps the queue this short
QueueCap == 2
\* chat messages the producers push in one run
MaxEvents == 3
\* the same, in the runs with two sessions
PairEvents == 1
\* ltrim(key, -1200, -1) in the code; the model keeps this many entries
TimelineCap == 3
\* chat messages in the runs with a statistics socket, and sockets opened
SocketEvents == 1
MaxSockets == 1
\* chat messages in the runs with failing collaborators and fair scheduling
FaultEvents == 2
\* chat messages in the runs where an emote goes under two names
NameEvents == 2
\* the largest count of one label in the tallies _format_sentiment is given
MaxTally == 12

\* The session identifiers requests can name.  Which of them uuid4 hands out
\* in a run is fixed by the initial state (`pool`): Spec follows one session
\* through MaxEvents messages, PairSpec two sessions through PairEvents.
Sessions == {1, 2}

(***************************************************************************)
(* Values.                                                                 *)
(***************************************************************************)
\* the drain sentinel: queue.put_nowait(None)
None == [id |-> 0]
\* the worker's locals `content` / `analysis` before their first assignment
Unbound == [id |-> -1]
\* no HTTP response was produced by the step just taken
NoResp == [op |-> "none"]

Usernames == {"Alice", "alice", "bob"}
LowerNames == {"alice", "bob"}
EmoteIds == {"25", "7tv:1"}

\* str.lower() on the author names of the model
lower(name) ==
    CASE name = "Alice" -> "alice"
      [] name = "alice" -> "alice"
      [] name = "bob" -> "bob"

\* The chat messages of the model: author, the emote references the
\* classifier extracts from content and tags, whether the content holds a
\* token that is a 7TV emote of the channel, and the classifier's label.
EventKinds ==
    { [username |-> "Alice", emotes |-> << <<"25", "Kappa">> >>,
       seventv |-> FALSE, label |-> "positive"],
      [username |-> "alice", emotes |-> << >>,
       seventv |-> TRUE, label |-> "negative"],
      [username |-> "bob", emotes |-> << >>,
       seventv |-> FALSE, label |-> "neutral"] }

\* Messages in which one emote identifier stands under two texts: the
\* classifier takes the name of a reference from the content at the
\* positions of the tag.
NameKinds ==
    { [username |-> "Alice", emotes |-> << <<"25", "Kappa">> >>,
       seventv |-> FALSE, label |-> "positive"],
      [username |-> "bob", emotes |-> << <<"25", "Keepo">> >>,
       seventv |-> FALSE, label |-> "neutral"],
      [username |-> "alice", emotes |-> << >>,
       seventv |-> TRUE, label |-> "negative"] }

\* the payload event_message builds for the n-th pushed message
Payload(n, kind) ==
    [id |-> n, username |-> kind.username, emotes |-> kind.emotes,
     seventv |-> kind.seventv, label |-> kind.label]

\* the keys of the namespace of one session
Keys == {"info", "messages", "chatters", "emotes", "emote_names",
         "emote_images", "sentiment", "timeline"}

VARIABLES
    \* settings.twitch_chat_oauth_token is configured
    token,
    \* the kinds of messages the chat of this run is made of
    chat,
    \* the identifiers uuid4 hands out in this run, and those handed out
    pool, allocated,
    \* position of start_session for each identifier
    startPc,
    \* the registry: identifiers with a SessionState
    active_sessions,
    \* SessionState.queue
    queue,
    \* _message_worker: position, and its locals
    workerPc, message, analysis, custom_emotes,
    \* _auto_stop
    timerPc,
    \* _run_bot / TwitchChatClient
    botPc,
    \* _stop_session: position, and its argument
    stopPc, from_timer,
    \* Redis keys of the namespace session:<id>:*
    info, messages, chatters, emotes, emote_names, emote_images, sentiment,
    timeline,
    \* the expiry of each of these keys
    ttl,
    \* SevenTVService: the load_session task and _session_emotes
    loadPc, session_emotes,
    \* history: messages pushed, the ids kept by the queue, the drops (id and
    \* the queue at that moment), the ids counted by the worker, close_session
    \* calls
    offered, retained, dropped, processed, closes,
    \* history: the messages the worker classified (lines 175-182), with the
    \* merged emote list of each; every entry ever appended to the timeline;
    \* the store calls of the worker that raised
    analysed, appended, errors,
    \* history: the sessions whose worker a stop has cancelled
    cancelled,
    \* chat messages still to come in this run
    budget,
    \* stats_socket: position of the loop, and the state of its client
    socketPc, client,
    \* the HTTP response produced by the step just taken
    resp

orchVars == <<token, pool, chat, allocated, startPc, active_sessions>>
taskVars == <<queue, workerPc, message, analysis, custom_emotes, timerPc,
              botPc, stopPc, from_timer>>
storeVars == <<info, messages, chatters, emotes, emote_names, emote_images,
               sentiment, timeline, ttl>>
tvVars == <<loadPc, session_emotes>>
histVars == <<offered, retained, dropped, processed, closes, analysed,
              appended, errors, cancelled, budget>>
sockVars == <<socketPc, client>>
vars == <<orchVars, taskVars, storeVars, tvVars, histVars, sockVars, resp>>

(***************************************************************************)
(* Construction: module import of main.py.                                 *)
(***************************************************************************)
Boot(ids, events, tally, kinds) ==
    /\ token \in BOOLEAN
    /\ chat = kinds
    /\ pool = ids
    /\ budget = events
    /\ allocated = {}
    /\ startPc = [s \in Sessions |-> "none"]
    /\ active_sessions = {}
    /\ queue = [s \in Sessions |-> << >>]
    /\ workerPc = [s \in Sessions |-> "none"]
    /\ message = [s \in Sessions |-> Unbound]
    /\ analysis = [s \in Sessions |-> Unbound]
    /\ custom_emotes = [s \in Sessions |-> << >>]
    /\ timerPc = [s \in Sessions |-> "none"]
    /\ botPc = [s \in Sessions |-> "none"]
    /\ stopPc = [s \in Sessions |-> "idle"]
    /\ from_timer = [s \in Sessions |-> FALSE]
    /\ info = [s \in Sessions |-> "absent"]
    /\ messages = [s \in Sessions |-> -1]
    /\ chatters = [s \in Sessions |-> [u \in Usernames |-> 0]]
    /\ emotes = [s \in Sessions |-> [e \in EmoteIds |-> 0]]
    /\ emote_names = [s \in Sessions |-> [e \in EmoteIds |-> ""]]
    /\ emote_images = [s \in Sessions |-> {}]
    /\ sentiment = [s \in Sessions |-> tally]
    /\ timeline = [s \in Sessions |-> << >>]
    /\ ttl = [s \in Sessions |-> [k \in Keys |-> "missing"]]
    /\ loadPc = [s \in Sessions |-> "none"]
    /\ session_emotes = {}
    /\ offered = [s \in Sessions |-> 0]
    /\ retained = [s \in Sessions |-> << >>]
    /\ dropped = [s \in Sessions |-> << >>]
    /\ processed = [s \in Sessions |-> << >>]
    /\ closes = [s \in Sessions |-> 0]
    /\ analysed = [s \in Sessions |-> << >>]
    /\ appended = [s \in Sessions |-> << >>]
    /\ errors = [s \in Sessions |-> 0]
    /\ cancelled = {}
    /\ socketPc = [s \in Sessions |-> "none"]
    /\ client = [s \in Sessions |-> "none"]
    /\ resp = NoResp

Setup(ids, events) ==
    Boot(ids, events, [positive |-> 0, negative |-> 0, neutral |-> 0],
         EventKinds)

Init == Setup({1}, MaxEvents)

\* the sentiment hash get_stats reads, for the check of _format_sentiment
InitFormat ==
    \E p, n, u \in 0..MaxTally :
        Boot({1}, 0, [positive |-> p, negative |-> n, neutral |-> u],
             EventKinds)

InitPair == Setup({1, 2}, PairEvents)

InitSocket == Setup({1}, SocketEvents)

InitFault == Setup({1}, FaultEvents)

\* a chat that uses two texts for the emote 25
InitNames ==
    Boot({1}, NameEvents, [positive |-> 0, negative |-> 0, neutral |-> 0],
         NameKinds)

(***************************************************************************)
(* RedisManager: the store primitives.                                     *)
(***************************************************************************)
\* The expiries of the keys of one namespace after a pipeline that writes
\* the keys `written` and calls expire on the keys `expired`.  A key is
\* "missing", or its time to live is counted from the "latest" write to the
\* namespace or from an "earlier" one, or it has none ("never" expires).
\* EXPIRE on a missing key does nothing; a write creates a key without an
\* expiry and leaves the expiry of an existing key as it is.
Expiries(t, written, expired) ==
    [k \in Keys |->
        IF k \in expired /\ (k \in written \/ t[k] # "missing") THEN "latest"
        ELSE IF k \in written /\ t[k] = "missing" THEN "never"
        ELSE IF t[k] = "latest" THEN "earlier"
        ELSE t[k]]

\* purge_session, then the pipeline of initialize_session
initialize_session(s) ==
    /\ ttl' = [ttl EXCEPT ![s] = Expiries([k \in Keys |-> "missing"],
                                          {"info", "messages"}, Keys)]
    /\ info' = [info EXCEPT ![s] = "active"]
    /\ messages' = [messages EXCEPT ![s] = 0]
    /\ chatters' = [chatters EXCEPT ![s] = [u \in Usernames |-> 0]]
    /\ emotes' = [emotes EXCEPT ![s] = [e \in EmoteIds |-> 0]]
    /\ emote_names' = [emote_names EXCEPT ![s] = [e \in EmoteIds |-> ""]]
    /\ emote_images' = [emote_images EXCEPT ![s] = {}]
    /\ sentiment' = [sentiment EXCEPT ![s] =
                       [positive |-> 0, negative |-> 0, neutral |-> 0]]
    /\ timeline' = [timeline EXCEPT ![s] = << >>]

\* hset(info_key, {"status": status, "ended_at": now})
close_session(s, status) ==
    /\ info' = [info EXCEPT ![s] = status]
    /\ ttl' = [ttl EXCEPT ![s] = Expiries(@, {"info"}, {})]

\* incrby(key, 1), a missing key counting from 0, then expire(key)
increment_message_count(s) ==
    /\ messages' = [messages EXCEPT ![s] = IF @ = -1 THEN 1 ELSE @ + 1]
    /\ ttl' = [ttl EXCEPT ![s] = Expiries(@, {"messages"}, {"messages"})]

\* zincrby(key, 1, username) with the name as the message carries it
increment_chatter_raw(s, username) ==
    /\ chatters' = [chatters EXCEPT ![s][username] = @ + 1]
    /\ ttl' = [ttl EXCEPT ![s] = Expiries(@, {"chatters"}, {"chatters"})]

\* zincrby(key, 1, username.lower()), then expire(key)
increment_chatter(s, username) ==
    /\ chatters' = [chatters EXCEPT ![s][lower(username)] = @ + 1]
    /\ ttl' = [ttl EXCEPT ![s] = Expiries(@, {"chatters"}, {"chatters"})]

\* hincrby(emotes_key, emote_id, 1) for every reference of the list
RECURSIVE EmoteCounts(_, _)
EmoteCounts(counts, refs) ==
    IF refs = << >> THEN counts
    ELSE EmoteCounts([counts EXCEPT ![Head(refs)[1]] = @ + 1], Tail(refs))

\* hset in place of hsetnx: the last name wins
RECURSIVE EmoteNames_hset(_, _)
EmoteNames_hset(names, refs) ==
    IF refs = << >> THEN names
    ELSE EmoteNames_hset([names EXCEPT ![Head(refs)[1]] = Head(refs)[2]],
                         Tail(refs))

\* hsetnx(emote_names_key, emote_id, emote_name) for every reference
RECURSIVE EmoteNames(_, _)
EmoteNames(names, refs) ==
    IF refs = << >> THEN names
    ELSE EmoteNames(
             IF names[Head(refs)[1]] = ""
             THEN [names EXCEPT ![Head(refs)[1]] = Head(refs)[2]]
             ELSE names,
             Tail(refs))

increment_emotes(s, refs) ==
    /\ emotes' = [emotes EXCEPT ![s] = EmoteCounts(@, refs)]
    /\ emote_names' = [emote_names EXCEPT ![s] = EmoteNames(@, refs)]
    /\ ttl' = [ttl EXCEPT ![s] = Expiries(@, {"emotes", "emote_names"},
                                          {"emotes", "emote_names"})]

\* hset(emote_images_key, emote_id, image_url), then expire(key), for the
\* given identifiers
set_emote_image(s, ids) ==
    /\ emote_images' = [emote_images EXCEPT ![s] = @ \cup ids]
    /\ ttl' = [ttl EXCEPT ![s] =
                 IF ids = {} THEN @
                 ELSE Expiries(@, {"emote_images"}, {"emote_images"})]

\* hincrby(sent_key, label, 1), then expire(sent_key)
update_sentiment(s, label) ==
    /\ sentiment' = [sentiment EXCEPT ![s][label] = @ + 1]
    /\ ttl' = [ttl EXCEPT ![s] = Expiries(@, {"sentiment"}, {"sentiment"})]

\* a trim that removes nothing
ltrim_none(entries, cap) == entries

\* ltrim(key, -cap, -1): the last cap entries
ltrim(entries, cap) ==
    IF Len(entries) <= cap THEN entries
    ELSE SubSeq(entries, Len(entries) - cap + 1, Len(entries))

\* rpush(key, timestamp), ltrim, then expire(key)
append_timeline(s, entry) ==
    /\ timeline' = [timeline EXCEPT ![s] =
                      ltrim(Append(@, entry), TimelineCap)]
    /\ ttl' = [ttl EXCEPT ![s] = Expiries(@, {"timeline"}, {"timeline"})]

(***************************************************************************)
(* asyncio.Queue(maxsize).                                                 *)
(***************************************************************************)
\* a queue that never reports itself full
full_never(q) == FALSE

\* Queue.full()
full(q) == Len(q) >= QueueCap

\* a put that loses the item
put_nowait_lost(q, item) == q

\* Queue.put_nowait(item) where it does not raise QueueFull
put_nowait(q, item) == Append(q, item)

(***************************************************************************)
(* start_session.                                                          *)
(***************************************************************************)
\* uuid.uuid4().hex: an identifier never handed out before
uuid4 == CHOOSE s \in pool \ allocated : TRUE

\* lines 92-95: a new identifier, and the store namespace is initialised;
\* a store that cannot be reached makes the request fail
start_session_initialize(s) ==
    /\ allocated # pool
    /\ s = uuid4
    /\ allocated' = allocated \cup {s}
    /\ \E store_ok \in BOOLEAN :
          IF store_ok
          THEN /\ initialize_session(s)
               /\ startPc' = [startPc EXCEPT ![s] = "initialized"]
               /\ resp' = NoResp
          ELSE /\ UNCHANGED storeVars
               /\ startPc' = [startPc EXCEPT ![s] = "failed"]
               /\ resp' = [op |-> "start", sid |-> s, result |-> "error"]
    /\ UNCHANGED <<token, pool, chat, active_sessions, taskVars, tvVars, histVars, sockVars>>

\* start_session with the worker and timer tasks created before the bot is
\* constructed
start_session_tasks_first(s) ==
    /\ startPc[s] = "initialized"
    /\ loadPc' = [loadPc EXCEPT ![s] = "loading"]
    /\ queue' = [queue EXCEPT ![s] = << >>]
    /\ workerPc' = [workerPc EXCEPT ![s] = "get"]
    /\ timerPc' = [timerPc EXCEPT ![s] = "sleeping"]
    /\ IF token
       THEN /\ botPc' = [botPc EXCEPT ![s] = "running"]
            /\ active_sessions' = active_sessions \cup {s}
            /\ startPc' = [startPc EXCEPT ![s] = "started"]
            /\ resp' = [op |-> "start", sid |-> s, result |-> "active"]
       ELSE /\ UNCHANGED <<botPc, active_sessions>>
            /\ startPc' = [startPc EXCEPT ![s] = "failed"]
            /\ resp' = [op |-> "start", sid |-> s, result |-> "error"]
    /\ UNCHANGED <<token, pool, chat, allocated, message, analysis, custom_emotes,
                   stopPc, from_timer, storeVars, session_emotes, histVars, sockVars>>

\* start_session suspended between the creation of the tasks (lines
\* 100-102) and the registration (line 106): the tasks can run while the
\* entry is missing
start_session_unregistered(s) ==
    /\ startPc[s] = "initialized"
    /\ loadPc' = [loadPc EXCEPT ![s] = "loading"]
    /\ IF token
       THEN /\ queue' = [queue EXCEPT ![s] = << >>]
            /\ workerPc' = [workerPc EXCEPT ![s] = "get"]
            /\ timerPc' = [timerPc EXCEPT ![s] = "sleeping"]
            /\ botPc' = [botPc EXCEPT ![s] = "running"]
            /\ startPc' = [startPc EXCEPT ![s] = "started"]
            /\ resp' = NoResp
            /\ UNCHANGED active_sessions
       ELSE /\ UNCHANGED <<queue, workerPc, timerPc, botPc, active_sessions>>
            /\ startPc' = [startPc EXCEPT ![s] = "failed"]
            /\ resp' = [op |-> "start", sid |-> s, result |-> "error"]
    /\ UNCHANGED <<token, pool, chat, allocated, message, analysis, custom_emotes,
                   stopPc, from_timer, storeVars, session_emotes, histVars, sockVars>>

\* lines 96-126, run without suspension once initialize_session returned:
\* the 7TV load task, the queue, the bot (its constructor raises without a
\* token), the three tasks, the registration and the response
start_session_register(s) ==
    /\ startPc[s] = "initialized"
    /\ loadPc' = [loadPc EXCEPT ![s] = "loading"]
    /\ IF token
       THEN /\ queue' = [queue EXCEPT ![s] = << >>]
            /\ workerPc' = [workerPc EXCEPT ![s] = "get"]
            /\ timerPc' = [timerPc EXCEPT ![s] = "sleeping"]
            /\ botPc' = [botPc EXCEPT ![s] = "running"]
            /\ active_sessions' = active_sessions \cup {s}
            /\ startPc' = [startPc EXCEPT ![s] = "started"]
            /\ resp' = [op |-> "start", sid |-> s, result |-> "active"]
       ELSE /\ UNCHANGED <<queue, workerPc, timerPc, botPc, active_sessions>>
            /\ startPc' = [startPc EXCEPT ![s] = "failed"]
            /\ resp' = [op |-> "start", sid |-> s, result |-> "error"]
    /\ UNCHANGED <<token, pool, chat, allocated, message, analysis, custom_emotes,
                   stopPc, from_timer, storeVars, session_emotes, histVars, sockVars>>

(***************************************************************************)
(* SevenTVService.                                                         *)
(***************************************************************************)
\* load_session: the fetches end and the session's lookup is stored
load_session(s) ==
    /\ loadPc[s] = "loading"
    /\ loadPc' = [loadPc EXCEPT ![s] = "done"]
    /\ session_emotes' = session_emotes \cup {s}
    /\ resp' = NoResp
    /\ UNCHANGED <<orchVars, taskVars, storeVars, histVars, sockVars>>

\* match_message: the 7TV emotes of the content, when the lookup is loaded
match_message(s, content) ==
    IF s \in session_emotes /\ content.seventv
    THEN << <<"7tv:1", "catJAM">> >>
    ELSE << >>

(***************************************************************************)
(* TwitchChatClient.event_message.                                         *)
(***************************************************************************)
\* the message ids of a queue's items (0 for the sentinel)
Ids(q) == [i \in DOMAIN q |-> q[i].id]

\* lines 44-55: the payload is put on the queue, or dropped with a warning
\* when the queue is full
event_message(s) ==
    /\ botPc[s] = "running"
    /\ budget > 0
    /\ budget' = budget - 1
    /\ \E kind \in chat :
          LET payload == Payload(offered[s] + 1, kind) IN
          /\ offered' = [offered EXCEPT ![s] = @ + 1]
          /\ IF full(queue[s])
             THEN /\ dropped' = [dropped EXCEPT ![s] =
                                  Append(@, [id |-> payload.id,
                                             queued |-> Ids(queue[s])])]
                  /\ UNCHANGED <<queue, retained>>
             ELSE /\ queue' = [queue EXCEPT ![s] = put_nowait(@, payload)]
                  /\ retained' = [retained EXCEPT ![s] = Append(@, payload.id)]
                  /\ UNCHANGED dropped
    /\ resp' = NoResp
    /\ UNCHANGED <<orchVars, workerPc, message, analysis, custom_emotes,
                   timerPc, botPc, stopPc, from_timer, storeVars, tvVars,
                   processed, closes, analysed, appended, errors, cancelled,
                   sockVars>>

(***************************************************************************)
(* _message_worker.                                                        *)
(***************************************************************************)
\* terminate = message is None
terminate(s) == message[s].id = 0

\* str.isdigit() on the emote identifiers of the model
isdigit(emote_id) == emote_id = "25"

\* batched_emotes: the classifier's references, then the 7TV matches
batched_emotes(s) == analysis[s].emotes \o custom_emotes[s]

\* the first store call the worker makes from line 183 on, given the lists
\* computed in lines 178-182; "end" when it makes none
AfterAnalysis(native, custom) ==
    IF native \o custom # << >> THEN "emotes" ELSE "end"

AfterEmotes(native, custom) ==
    IF native # << >> THEN "images"
    ELSE IF custom # << >> THEN "custom_images" ELSE "end"

AfterImages(custom) ==
    IF custom # << >> THEN "custom_images" ELSE "end"

\* lines 194-197: task_done, then break on the sentinel or loop; the locals
\* `message` and `custom_emotes` are dead until their next assignment
EndOfIteration(s, next, term) ==
    IF next = "end"
    THEN /\ workerPc' = [workerPc EXCEPT ![s] = IF term THEN "done" ELSE "get"]
         /\ message' = [message EXCEPT ![s] = Unbound]
         /\ custom_emotes' = [custom_emotes EXCEPT ![s] = << >>]
    ELSE /\ workerPc' = [workerPc EXCEPT ![s] = next]
         /\ UNCHANGED <<message, custom_emotes>>

\* the loop is left through an except clause (CancelledError at the current
\* await, or an exception): the task ends
WorkerEnds(s) ==
    /\ workerPc' = [workerPc EXCEPT ![s] = "done"]
    /\ message' = [message EXCEPT ![s] = Unbound]
    /\ custom_emotes' = [custom_emotes EXCEPT ![s] = << >>]

\* line 167-168, and for the sentinel lines 178-182 with the locals of the
\* previous iteration (NameError when there was none)
worker_get(s) ==
    /\ workerPc[s] = "get"
    /\ queue[s] # << >>
    /\ queue' = [queue EXCEPT ![s] = Tail(@)]
    /\ LET item == Head(queue[s]) IN
       IF item.id # 0
       THEN /\ message' = [message EXCEPT ![s] = item]
            /\ workerPc' = [workerPc EXCEPT ![s] = "count"]
            /\ UNCHANGED custom_emotes
       ELSE IF analysis[s].id = -1
       THEN WorkerEnds(s)
       ELSE LET custom == match_message(s, analysis[s])
                next == AfterAnalysis(analysis[s].emotes, custom) IN
            IF next = "end"
            THEN EndOfIteration(s, "end", TRUE)
            ELSE /\ workerPc' = [workerPc EXCEPT ![s] = next]
                 /\ message' = [message EXCEPT ![s] = None]
                 /\ custom_emotes' = [custom_emotes EXCEPT ![s] = custom]
    /\ resp' = NoResp
    /\ UNCHANGED <<orchVars, analysis, timerPc, botPc, stopPc, from_timer,
                   storeVars, tvVars, histVars, sockVars>>

\* line 174
worker_count(s) ==
    /\ workerPc[s] = "count"
    /\ increment_message_count(s)
    /\ processed' = [processed EXCEPT ![s] = Append(@, message[s].id)]
    /\ workerPc' = [workerPc EXCEPT ![s] = "chatter"]
    /\ resp' = NoResp
    /\ UNCHANGED <<orchVars, queue, message, analysis, custom_emotes, timerPc,
                   botPc, stopPc, from_timer, info, chatters, emotes,
                   emote_names, emote_images, sentiment, timeline, tvVars,
                   offered, retained, dropped, closes, analysed, appended,
                   errors, cancelled, budget,
                   sockVars>>

\* lines 175-182: the chatter rank, then the classification and the 7TV
\* matches of this message
worker_chatter(s) ==
    /\ workerPc[s] = "chatter"
    /\ increment_chatter(s, message[s].username)
    /\ analysis' = [analysis EXCEPT ![s] = message[s]]
    /\ LET custom == match_message(s, message[s])
           next == AfterAnalysis(message[s].emotes, custom) IN
       /\ analysed' = [analysed EXCEPT ![s] =
                         Append(@, [id |-> message[s].id,
                                    username |-> message[s].username,
                                    refs |-> message[s].emotes \o custom])]
       /\ IF next = "end"
          THEN EndOfIteration(s, "end", FALSE)
          ELSE /\ workerPc' = [workerPc EXCEPT ![s] = next]
               /\ custom_emotes' = [custom_emotes EXCEPT ![s] = custom]
               /\ UNCHANGED message
    /\ resp' = NoResp
    /\ UNCHANGED <<orchVars, queue, timerPc, botPc, stopPc, from_timer, info,
                   messages, emotes, emote_names, emote_images, sentiment,
                   timeline, tvVars, offered, retained, dropped, processed,
                   closes, appended, errors, cancelled, budget,
                   sockVars>>

\* lines 183-184
worker_emotes(s) ==
    /\ workerPc[s] = "emotes"
    /\ increment_emotes(s, batched_emotes(s))
    /\ EndOfIteration(s, AfterEmotes(analysis[s].emotes, custom_emotes[s]),
                      terminate(s))
    /\ resp' = NoResp
    /\ UNCHANGED <<orchVars, queue, analysis, timerPc, botPc, stopPc,
                   from_timer, info, messages, chatters, emote_images,
                   sentiment, timeline, tvVars, histVars, sockVars>>

\* lines 185-186: _cache_emote_images stores an image for the numeric
\* identifiers (the metadata lookup always yields a URL for them)
worker_images(s) ==
    /\ workerPc[s] = "images"
    /\ set_emote_image(s, {analysis[s].emotes[i][1] :
                             i \in {j \in DOMAIN analysis[s].emotes :
                                      isdigit(analysis[s].emotes[j][1])}})
    /\ EndOfIteration(s, AfterImages(custom_emotes[s]), terminate(s))
    /\ resp' = NoResp
    /\ UNCHANGED <<orchVars, queue, analysis, timerPc, botPc, stopPc,
                   from_timer, info, messages, chatters, emotes, emote_names,
                   sentiment, timeline, tvVars, histVars, sockVars>>

\* lines 187-189
worker_custom_images(s) ==
    /\ workerPc[s] = "custom_images"
    /\ set_emote_image(s, {custom_emotes[s][i][1] :
                             i \in DOMAIN custom_emotes[s]})
    /\ workerPc' = [workerPc EXCEPT ![s] = "sentiment"]
    /\ resp' = NoResp
    /\ UNCHANGED <<orchVars, queue, message, analysis, custom_emotes, timerPc,
                   botPc, stopPc, from_timer, info, messages, chatters,
                   emotes, emote_names, sentiment, timeline, tvVars,
                   histVars, sockVars>>

\* lines 190-192: on the sentinel message.get raises AttributeError
worker_sentiment(s) ==
    /\ workerPc[s] = "sentiment"
    /\ update_sentiment(s, analysis[s].label)
    /\ IF terminate(s)
       THEN WorkerEnds(s)
       ELSE /\ workerPc' = [workerPc EXCEPT ![s] = "timeline"]
            /\ UNCHANGED <<message, custom_emotes>>
    /\ resp' = NoResp
    /\ UNCHANGED <<orchVars, queue, analysis, timerPc, botPc, stopPc,
                   from_timer, info, messages, chatters, emotes, emote_names,
                   emote_images, timeline, tvVars, histVars, sockVars>>

\* line 193, then lines 194-197
worker_timeline(s) ==
    /\ workerPc[s] = "timeline"
    /\ append_timeline(s, [kind |-> "message", id |-> message[s].id])
    /\ appended' = [appended EXCEPT ![s] =
                      Append(@, [kind |-> "message", id |-> message[s].id])]
    /\ EndOfIteration(s, "end", FALSE)
    /\ resp' = NoResp
    /\ UNCHANGED <<orchVars, queue, analysis, timerPc, botPc, stopPc,
                   from_timer, info, messages, chatters, emotes, emote_names,
                   emote_images, sentiment, tvVars, offered, retained,
                   dropped, processed, closes, analysed, errors, cancelled, budget,
                   sockVars>>

\* a store call the worker awaits raises (the store is unreachable): the
\* inner try has no except clause, so after task_done (line 195) the
\* exception leaves the loop and is logged at lines 200-201
worker_store_error(s) ==
    /\ workerPc[s] \in {"count", "chatter", "emotes", "images",
                         "custom_images", "sentiment", "timeline"}
    /\ WorkerEnds(s)
    /\ errors' = [errors EXCEPT ![s] = @ + 1]
    /\ resp' = NoResp
    /\ UNCHANGED <<orchVars, queue, analysis, timerPc, botPc, stopPc,
                   from_timer, storeVars, tvVars, offered, retained, dropped,
                   processed, closes, analysed, appended, cancelled, budget,
                   sockVars>>

\* a store call the worker awaits never completes (the store accepts the
\* request and does not answer): the worker stays suspended in it until it
\* is cancelled
worker_store_hangs(s) ==
    /\ workerPc[s] \in {"count", "chatter", "emotes", "images",
                         "custom_images", "sentiment", "timeline"}
    /\ workerPc' = [workerPc EXCEPT ![s] = "hung"]
    /\ resp' = NoResp
    /\ UNCHANGED <<orchVars, queue, message, analysis, custom_emotes, timerPc,
                   botPc, stopPc, from_timer, storeVars, tvVars, histVars,
                   sockVars>>

\* _message_worker: one segment of the worker of session s
message_worker(s) ==
    \/ worker_get(s)
    \/ worker_count(s)
    \/ worker_chatter(s)
    \/ worker_emotes(s)
    \/ worker_images(s)
    \/ worker_custom_images(s)
    \/ worker_sentiment(s)
    \/ worker_timeline(s)

(***************************************************************************)
(* _stop_session, stop_session and _auto_stop.                             *)
(***************************************************************************)
\* active_sessions.clear() in place of pop: every entry goes
pop_all(registry, s) == {}

\* active_sessions.get in place of pop: the entry stays
pop_keeps(registry, s) == registry

\* active_sessions.pop(session_id, None): the registry afterwards
pop(registry, s) == registry \ {s}

\* the default of close_session's status parameter, whatever the trigger
status_default(ft) == "complete"

\* "complete" if from_timer else "stopped"
status(ft) == IF ft THEN "complete" ELSE "stopped"

\* _stop_session without `if not state: return`
_stop_session_unguarded(s, ft) ==
    /\ active_sessions' = active_sessions \ {s}
    /\ stopPc' = [stopPc EXCEPT ![s] = "await_worker"]
    /\ from_timer' = [from_timer EXCEPT ![s] = ft]
    /\ IF Len(queue[s]) >= QueueCap
       THEN /\ WorkerEnds(s)
            /\ cancelled' = cancelled \cup {s}
            /\ UNCHANGED queue
       ELSE /\ queue' = [queue EXCEPT ![s] = Append(@, None)]
            /\ UNCHANGED <<workerPc, message, custom_emotes, cancelled>>

\* _stop_session without `state.processor_task.cancel()` on a full queue
_stop_session_nocancel(s, ft) ==
    IF s \notin active_sessions
    THEN UNCHANGED <<active_sessions, queue, workerPc, message,
                     custom_emotes, stopPc, from_timer, cancelled>>
    ELSE /\ active_sessions' = active_sessions \ {s}
         /\ stopPc' = [stopPc EXCEPT ![s] = "await_worker"]
         /\ from_timer' = [from_timer EXCEPT ![s] = ft]
         /\ queue' = [queue EXCEPT ![s] =
                        IF Len(@) >= QueueCap THEN @ ELSE Append(@, None)]
         /\ UNCHANGED <<workerPc, message, custom_emotes, cancelled>>

\* lines 212-224 up to the suspension in `await state.processor_task`: the
\* entry is popped, and the sentinel is queued or, the queue being full, the
\* worker is cancelled (it ends at its current await without another write)
_stop_session(s, ft) ==
    IF s \notin active_sessions
    THEN UNCHANGED <<active_sessions, queue, workerPc, message,
                     custom_emotes, stopPc, from_timer, cancelled>>
    ELSE /\ active_sessions' = pop(active_sessions, s)
         /\ stopPc' = [stopPc EXCEPT ![s] = "await_worker"]
         /\ from_timer' = [from_timer EXCEPT ![s] = ft]
         /\ IF full(queue[s])
            THEN /\ WorkerEnds(s)
                 /\ cancelled' = cancelled \cup {s}
                 /\ UNCHANGED queue
            ELSE /\ queue' = [queue EXCEPT ![s] = put_nowait(@, None)]
                 /\ UNCHANGED <<workerPc, message, custom_emotes, cancelled>>

\* stop_session without the registry check of line 131
stop_session_unchecked(s) ==
    /\ _stop_session(s, FALSE)
    /\ resp' = IF s \notin active_sessions
               THEN [op |-> "stop", sid |-> s, result |-> "stopped"]
               ELSE NoResp
    /\ UNCHANGED <<token, pool, chat, allocated, startPc, analysis, timerPc, botPc,
                   storeVars, tvVars, offered, retained, dropped, processed,
                   closes, analysed, appended, errors, budget, sockVars>>

\* stop_session working on a SessionState it finds by other means than the
\* registry: it also takes a session the timer is shutting down
stop_session_by_handle(s) ==
    /\ IF s \notin active_sessions /\ stopPc[s] \in {"idle", "done"}
       THEN /\ resp' = [op |-> "stop", sid |-> s, result |-> "NotFound"]
            /\ UNCHANGED <<active_sessions, queue, workerPc, message,
                           custom_emotes, stopPc, from_timer, cancelled>>
       ELSE /\ _stop_session_unguarded(s, FALSE)
            /\ resp' = NoResp
    /\ UNCHANGED <<token, pool, chat, allocated, startPc, analysis, timerPc, botPc,
                   storeVars, tvVars, offered, retained, dropped, processed,
                   closes, analysed, appended, errors, budget, sockVars>>

\* POST /api/stop: 404 for an identifier that is not registered
stop_session(s) ==
    /\ IF s \notin active_sessions
       THEN /\ resp' = [op |-> "stop", sid |-> s, result |-> "NotFound"]
            /\ UNCHANGED <<active_sessions, queue, workerPc, message,
                           custom_emotes, stopPc, from_timer, cancelled>>
       ELSE /\ _stop_session(s, FALSE)
            /\ resp' = NoResp
    /\ UNCHANGED <<token, pool, chat, allocated, startPc, analysis, timerPc, botPc,
                   storeVars, tvVars, offered, retained, dropped, processed,
                   closes, analysed, appended, errors, budget, sockVars>>

\* _auto_stop running the shutdown whether or not the session is registered
_auto_stop_forced(s) ==
    /\ timerPc[s] = "sleeping"
    /\ _stop_session_unguarded(s, TRUE)
    /\ timerPc' = [timerPc EXCEPT ![s] = "stopping"]
    /\ resp' = NoResp
    /\ UNCHANGED <<token, pool, chat, allocated, startPc, analysis, botPc,
                   storeVars, tvVars, offered, retained, dropped, processed,
                   closes, analysed, appended, errors, budget, sockVars>>

\* _auto_stop: the sleep ends and the timer asks for the stop
_auto_stop(s) ==
    /\ timerPc[s] = "sleeping"
    /\ _stop_session(s, TRUE)
    /\ timerPc' = [timerPc EXCEPT ![s] =
                     IF s \in active_sessions THEN "stopping" ELSE "done"]
    /\ resp' = NoResp
    /\ UNCHANGED <<token, pool, chat, allocated, startPc, analysis, botPc,
                   storeVars, tvVars, offered, retained, dropped, processed,
                   closes, analysed, appended, errors, budget, sockVars>>

\* lines 226-230 without the wait for the worker of lines 223-224
stop_worker_unjoined(s) ==
    /\ stopPc[s] = "await_worker"
    /\ timerPc' = [timerPc EXCEPT ![s] =
                     IF ~from_timer[s] /\ @ \in {"sleeping", "stopping"}
                     THEN "cancelled" ELSE @]
    /\ stopPc' = [stopPc EXCEPT ![s] = "bot_shutdown"]
    /\ resp' = NoResp
    /\ UNCHANGED <<orchVars, queue, workerPc, message, analysis,
                   custom_emotes, botPc, from_timer, storeVars, tvVars,
                   histVars, sockVars>>

\* lines 224-230: the worker task has ended; an explicit stop cancels the
\* timer task, wherever it stands unless it has ended, and bot.shutdown() is
\* started
stop_worker_joined(s) ==
    /\ stopPc[s] = "await_worker"
    /\ workerPc[s] = "done"
    /\ timerPc' = [timerPc EXCEPT ![s] =
                     IF ~from_timer[s] /\ @ \in {"sleeping", "stopping"}
                     THEN "cancelled" ELSE @]
    /\ stopPc' = [stopPc EXCEPT ![s] = "bot_shutdown"]
    /\ resp' = NoResp
    /\ UNCHANGED <<orchVars, queue, workerPc, message, analysis,
                   custom_emotes, botPc, from_timer, storeVars, tvVars,
                   histVars, sockVars>>

\* _run_bot, lines 244-245: bot.start() raises (the connection fails or is
\* lost); the exception is logged and the bot task ends
bot_error(s) ==
    /\ botPc[s] = "running"
    /\ botPc' = [botPc EXCEPT ![s] = "failed"]
    /\ resp' = NoResp
    /\ UNCHANGED <<orchVars, queue, workerPc, message, analysis,
                   custom_emotes, timerPc, stopPc, from_timer, storeVars,
                   tvVars, histVars, sockVars>>

\* line 230 and _run_bot: the connection is closed, bot.start() returns and
\* the bot task ends, if it had not ended before
stop_bot_shutdown(s) ==
    /\ stopPc[s] = "bot_shutdown"
    /\ botPc' = [botPc EXCEPT ![s] = IF @ = "failed" THEN @ ELSE "done"]
    /\ stopPc' = [stopPc EXCEPT ![s] = "await_bot"]
    /\ resp' = NoResp
    /\ UNCHANGED <<orchVars, queue, workerPc, message, analysis,
                   custom_emotes, timerPc, from_timer, storeVars, tvVars,
                   histVars, sockVars>>

\* lines 231-234 with a _run_bot that lets the connection error through: the
\* await of line 232 raises it again and _stop_session ends there
stop_bot_joined_raises(s) ==
    /\ stopPc[s] = "await_bot"
    /\ botPc[s] \in {"done", "failed"}
    /\ stopPc' = [stopPc EXCEPT ![s] =
                     IF botPc[s] = "failed" THEN "done" ELSE "close"]
    /\ resp' = NoResp
    /\ UNCHANGED <<orchVars, queue, workerPc, message, analysis,
                   custom_emotes, timerPc, botPc, from_timer, storeVars,
                   tvVars, histVars, sockVars>>

\* lines 231-234: the bot task is joined, however it ended, and
\* close_session is issued
stop_bot_joined(s) ==
    /\ stopPc[s] = "await_bot"
    /\ botPc[s] \in {"done", "failed"}
    /\ stopPc' = [stopPc EXCEPT ![s] = "close"]
    /\ resp' = NoResp
    /\ UNCHANGED <<orchVars, queue, workerPc, message, analysis,
                   custom_emotes, timerPc, botPc, from_timer, storeVars,
                   tvVars, histVars, sockVars>>

\* line 234 takes effect; line 235 is issued
stop_close(s) ==
    /\ stopPc[s] = "close"
    /\ close_session(s, status(from_timer[s]))
    /\ closes' = [closes EXCEPT ![s] = @ + 1]
    /\ stopPc' = [stopPc EXCEPT ![s] = "timeline"]
    /\ resp' = NoResp
    /\ UNCHANGED <<orchVars, queue, workerPc, message, analysis,
                   custom_emotes, timerPc, botPc, from_timer, messages,
                   chatters, emotes, emote_names, emote_images, sentiment,
                   timeline, tvVars, offered, retained, dropped, processed,
                   analysed, appended, errors, cancelled, budget,
                   sockVars>>

\* line 235 takes effect, then line 236 (drop_session does not suspend) and
\* the return: the timer task ends, or the stop request is answered
stop_timeline(s) ==
    /\ stopPc[s] = "timeline"
    /\ append_timeline(s, [kind |-> "shutdown", id |-> 0])
    /\ appended' = [appended EXCEPT ![s] =
                      Append(@, [kind |-> "shutdown", id |-> 0])]
    /\ session_emotes' = session_emotes \ {s}
    /\ stopPc' = [stopPc EXCEPT ![s] = "done"]
    /\ timerPc' = [timerPc EXCEPT ![s] = IF from_timer[s] THEN "done" ELSE @]
    /\ resp' = IF from_timer[s] THEN NoResp
               ELSE [op |-> "stop", sid |-> s, result |-> "stopped"]
    /\ UNCHANGED <<orchVars, queue, workerPc, message, analysis,
                   custom_emotes, botPc, from_timer, info, messages, chatters,
                   emotes, emote_names, emote_images, sentiment, loadPc,
                   offered, retained, dropped, processed, closes, analysed,
                   errors, cancelled, budget,
                   sockVars>>

(***************************************************************************)
(* get_stats.                                                              *)
(***************************************************************************)
\* max(n, 1)
max1(n) == IF n > 1 THEN n ELSE 1

\* the percentages cut off instead of rounded
round2_floor(count, total) == (count * 10000) \div total

\* round((count / total) * 100, 2) in hundredths of a percent: Python rounds
\* to the nearest hundredth and a tie to the even one
round2(count, total) ==
    LET q == (count * 10000) \div total
        r == (count * 10000) % total IN
    IF 2 * r > total THEN q + 1
    ELSE IF 2 * r < total THEN q
    ELSE IF q % 2 = 0 THEN q ELSE q + 1

\* RedisManager._format_sentiment; the percentages in hundredths
_format_sentiment(tally) ==
    LET total == max1(tally.positive + tally.negative + tally.neutral) IN
    [positive |-> tally.positive,
     negative |-> tally.negative,
     neutral |-> tally.neutral,
     positivePct |-> round2(tally.positive, total),
     negativePct |-> round2(tally.negative, total),
     neutralPct |-> round2(tally.neutral, total)]

\* RedisManager.get_stats: the snapshot, with `recent` timeline entries
\* inside the trailing window of _count_recent
Stats(s, recent) ==
    [session |-> info[s],
     messageCount |-> IF messages[s] = -1 THEN 0 ELSE messages[s],
     chatterCount |-> Cardinality({u \in Usernames : chatters[s][u] > 0}),
     topChatters |-> [u \in {v \in Usernames : chatters[s][v] > 0} |->
                         chatters[s][u]],
     topEmotes |-> Cardinality({e \in EmoteIds : emotes[s][e] > 0}),
     sentiment |-> _format_sentiment(sentiment[s]),
     messagesPerMinute |-> recent]

\* get_stats answering 404 for a snapshot without messages
get_stats_needs_messages(s) ==
    /\ \E recent \in 0..Len(timeline[s]) :
          resp' = [op |-> "stats", sid |-> s,
                   result |-> IF Stats(s, recent).messageCount = 0
                              THEN "NotAvailable" ELSE "ok",
                   stats |-> Stats(s, recent)]
    /\ UNCHANGED <<orchVars, taskVars, storeVars, tvVars, histVars, sockVars>>

\* GET /api/stats/{session_id}: 404 when the snapshot has no session info
get_stats(s) ==
    /\ \E recent \in 0..Len(timeline[s]) :
          resp' = [op |-> "stats", sid |-> s,
                   result |-> IF Stats(s, recent).session = "absent"
                              THEN "NotAvailable" ELSE "ok",
                   stats |-> Stats(s, recent)]
    /\ UNCHANGED <<orchVars, taskVars, storeVars, tvVars, histVars, sockVars>>

(***************************************************************************)
(* stats_socket.                                                           *)
(***************************************************************************)
\* line 147: a client opens /ws/{session_id}; the loop is entered
stats_socket_accept(s) ==
    /\ socketPc[s] = "none"
    /\ Cardinality({t \in Sessions : socketPc[t] # "none"}) < MaxSockets
    /\ socketPc' = [socketPc EXCEPT ![s] = "stats"]
    /\ client' = [client EXCEPT ![s] = "connected"]
    /\ resp' = NoResp
    /\ UNCHANGED <<orchVars, taskVars, storeVars, tvVars, histVars>>

\* the client goes away; the loop learns of it at its next send
client_disconnect(s) ==
    /\ client[s] = "connected"
    /\ client' = [client EXCEPT ![s] = "gone"]
    /\ resp' = NoResp
    /\ UNCHANGED <<orchVars, taskVars, storeVars, tvVars, histVars, socketPc>>

\* lines 151-152: the snapshot is read and sent as it is; sending to a client
\* that is gone raises, which ends the loop (lines 154-160)
stats_socket_send(s) ==
    /\ socketPc[s] = "stats"
    /\ IF client[s] = "connected"
       THEN /\ \E recent \in 0..Len(timeline[s]) :
                  resp' = [op |-> "ws", sid |-> s, result |-> "sent",
                           stats |-> Stats(s, recent)]
            /\ socketPc' = [socketPc EXCEPT ![s] = "sleep"]
       ELSE /\ resp' = NoResp
            /\ socketPc' = [socketPc EXCEPT ![s] = "closed"]
    /\ UNCHANGED <<orchVars, taskVars, storeVars, tvVars, histVars, client>>

\* line 153: the interval has passed
stats_socket_sleep(s) ==
    /\ socketPc[s] = "sleep"
    /\ socketPc' = [socketPc EXCEPT ![s] = "stats"]
    /\ resp' = NoResp
    /\ UNCHANGED <<orchVars, taskVars, storeVars, tvVars, histVars, client>>

(***************************************************************************)
(* The system.                                                             *)
(***************************************************************************)
\* the steps of the sessions: requests that start and stop them, their tasks
NextLifecycle ==
    \E s \in Sessions :
        \/ start_session_initialize(s)
        \/ start_session_register(s)
        \/ load_session(s)
        \/ event_message(s)
        \/ message_worker(s)
        \/ stop_session(s)
        \/ _auto_stop(s)
        \/ stop_worker_joined(s)
        \/ stop_bot_shutdown(s)
        \/ stop_bot_joined(s)
        \/ stop_close(s)
        \/ stop_timeline(s)

\* the same with the statistics requests, which read the store at any time
Next ==
    \/ NextLifecycle
    \/ \E s \in Sessions : get_stats(s)

Spec == Init /\ [][Next]_vars

\* two sessions side by side, without the statistics requests
PairSpec == InitPair /\ [][NextLifecycle]_vars

\* the sessions with a store that can fail under the worker and a chat
\* connection that can fail under the bot
NextFault ==
    \/ NextLifecycle
    \/ \E s \in Sessions :
          \/ worker_store_error(s)
          \/ bot_error(s)

FaultSpec == Init /\ [][NextFault]_vars

\* the sessions of a chat that uses two texts for one emote
NamesSpec == InitNames /\ [][NextLifecycle]_vars

\* the sessions with a store that can leave a call of the worker unanswered
NextHang ==
    \/ NextLifecycle
    \/ \E s \in Sessions : worker_store_hangs(s)

\* the sessions with clients of the statistics socket
NextSocket ==
    \/ NextLifecycle
    \/ \E s \in Sessions :
          \/ stats_socket_accept(s)
          \/ client_disconnect(s)
          \/ stats_socket_send(s)
          \/ stats_socket_sleep(s)

\* get_stats formatting the sentiment hashes of InitFormat
NextFormat == \E s \in Sessions : get_stats(s)

FormatSpec == InitFormat /\ [][NextFormat]_vars

\* The event loop runs every task that can run, the store answers every
\* round trip and the sleep of the timer ends; requests and chat messages
\* arrive or not.  The statistics requests, which only read, are left out.
FairSpec ==
    /\ Init /\ [][NextLifecycle]_vars
    /\ \A s \in Sessions :
          /\ WF_vars(start_session_register(s))
          /\ WF_vars(load_session(s))
          /\ WF_vars(message_worker(s))
          /\ WF_vars(_auto_stop(s))
          /\ WF_vars(stop_worker_joined(s))
          /\ WF_vars(stop_bot_shutdown(s))
          /\ WF_vars(stop_bot_joined(s))
          /\ WF_vars(stop_close(s))
          /\ WF_vars(stop_timeline(s))

\* The same with the failures of NextFault, which happen or not.
FaultFairSpec ==
    /\ InitFault /\ [][NextFault]_vars
    /\ \A s \in Sessions :
          /\ WF_vars(start_session_register(s))
          /\ WF_vars(load_session(s))
          /\ WF_vars(message_worker(s))
          /\ WF_vars(_auto_stop(s))
          /\ WF_vars(stop_worker_joined(s))
          /\ WF_vars(stop_bot_shutdown(s))
          /\ WF_vars(stop_bot_joined(s))
          /\ WF_vars(stop_close(s))
          /\ WF_vars(stop_timeline(s))

\* The same with a store that can leave a call of the worker unanswered:
\* every other round trip is answered.
HangSpec ==
    /\ InitFault /\ [][NextHang]_vars
    /\ \A s \in Sessions :
          /\ WF_vars(start_session_register(s))
          /\ WF_vars(load_session(s))
          /\ WF_vars(message_worker(s))
          /\ WF_vars(_auto_stop(s))
          /\ WF_vars(stop_worker_joined(s))
          /\ WF_vars(stop_bot_shutdown(s))
          /\ WF_vars(stop_bot_joined(s))
          /\ WF_vars(stop_close(s))
          /\ WF_vars(stop_timeline(s))

\* The same for the runs with a statistics socket: the loop of the socket is
\* a task of the event loop too; clients connect and disconnect or not.
SocketSpec ==
    /\ InitSocket /\ [][NextSocket]_vars
    /\ \A s \in Sessions :
          /\ WF_vars(start_session_register(s))
          /\ WF_vars(load_session(s))
          /\ WF_vars(message_worker(s))
          /\ WF_vars(_auto_stop(s))
          /\ WF_vars(stop_worker_joined(s))
          /\ WF_vars(stop_bot_shutdown(s))
          /\ WF_vars(stop_bot_joined(s))
          /\ WF_vars(stop_close(s))
          /\ WF_vars(stop_timeline(s))
          /\ WF_vars(stats_socket_send(s))
          /\ WF_vars(stats_socket_sleep(s))

(***************************************************************************)
(* Properties.                                                             *)
(***************************************************************************)
Terminal == {"stopped", "complete"}

\* the shutdown entries the timeline of s holds
ShutdownEntries(s) ==
    Cardinality({i \in DOMAIN timeline[s] : timeline[s][i].kind = "shutdown"})

\* the step answers a stop request for s on the spot
StopAnswered(s) ==
    /\ resp'.op = "stop"
    /\ resp'.sid = s
    /\ stopPc[s] # "timeline"

\* C1: once the session has been shut down, the total message counter equals
\* the number of messages pushed minus the number dropped on a full queue.
C1_CounterEqualsRetained ==
    \A s \in Sessions :
        stopPc[s] = "done" => messages[s] = offered[s] - Len(dropped[s])

\* C2: whatever the interleaving of stop requests and timer expiry, the
\* store record of a session is closed at most once and its timeline gets at
\* most one shutdown entry; a finished shutdown has done each exactly once.
C2_ShutdownAtMostOnce ==
    \A s \in Sessions :
        /\ closes[s] <= 1
        /\ ShutdownEntries(s) <= 1
        /\ stopPc[s] = "done" => closes[s] = 1 /\ ShutdownEntries(s) = 1

\* an explicit stop ran the shutdown while the timer expired and did nothing
C2_Witness ==
    \E s \in Sessions :
        /\ stopPc[s] = "done"
        /\ ~from_timer[s]
        /\ timerPc[s] = "done"
        /\ closes[s] = 1

\* C3: a stop request for an identifier that is not in the registry is
\* answered NotFound and changes neither the registry, a queue, a task nor
\* the store.
C3_StopAbsentNotFound ==
    [][\A s \in Sessions :
          StopAnswered(s) =>
              /\ s \notin active_sessions
              /\ resp'.result = "NotFound"
              /\ UNCHANGED <<orchVars, taskVars, storeVars, tvVars, histVars>>
      ]_vars

\* a stop request for an identifier that was never handed out got NotFound
C3_Witness ==
    /\ resp.op = "stop"
    /\ resp.result = "NotFound"
    /\ resp.sid \notin allocated

\* C4 as claimed: a stop request for a session that has already been stopped
\* returns without error.
C4_SecondStopDoesNotRaise ==
    \A s \in Sessions :
        (resp.op = "stop" /\ resp.sid = s /\ stopPc[s] = "done")
            => resp.result # "NotFound"

\* C4 as amended: stopping a session whose shutdown has begun or finished
\* changes nothing: an explicit stop request is answered NotFound, the timer
\* that expires returns silently, and neither touches the registry, the
\* tasks or the store.
C4_SecondStopChangesNothing ==
    [][\A s \in Sessions :
          stopPc[s] # "idle" =>
              /\ StopAnswered(s) =>
                    /\ resp'.result = "NotFound"
                    /\ UNCHANGED <<active_sessions, taskVars, storeVars,
                                   histVars>>
              /\ (timerPc[s] = "sleeping" /\ timerPc'[s] = "done") =>
                    /\ resp' = NoResp
                    /\ UNCHANGED <<active_sessions, queue, workerPc, botPc,
                                   stopPc, from_timer, storeVars, histVars>>
      ]_vars

\* a second stop request after the shutdown finished was answered NotFound
C4_Witness ==
    /\ resp.op = "stop"
    /\ resp.result = "NotFound"
    /\ stopPc[resp.sid] = "done"
    /\ closes[resp.sid] = 1

\* C5: the store status goes from active to one terminal value and then
\* stays: complete exactly when the timer task runs the shutdown, stopped
\* exactly when a stop request does; an identifier is registered only once.
C5_StatusTerminal ==
    [][\A s \in Sessions :
          /\ info'[s] # info[s] =>
                \/ info[s] = "absent" /\ info'[s] = "active"
                \/ /\ info[s] = "active"
                   /\ info'[s] \in Terminal
                   /\ info'[s] = "complete" <=> timerPc[s] = "stopping"
                   /\ info'[s] = "stopped" <=> timerPc[s] # "stopping"
          /\ (s \in active_sessions' /\ s \notin active_sessions) =>
                /\ stopPc[s] = "idle"
                /\ startPc[s] # "started"
          /\ stopPc[s] # "idle" => s \notin active_sessions'
      ]_vars

\* an explicit stop closed the record as stopped and cancelled the timer
C5_Witness ==
    \E s \in Sessions :
        /\ info[s] = "stopped"
        /\ timerPc[s] = "cancelled"
        /\ s \notin active_sessions

\* C6: every started session eventually leaves the registry and its store
\* status eventually becomes terminal, also when nobody asks for a stop.
C6_EventuallyTerminal ==
    \A s \in Sessions :
        (startPc[s] = "started")
            ~> (s \notin active_sessions /\ info[s] \in Terminal)

\* the timer alone ended a session that had counted messages
C6_Witness ==
    \E s \in Sessions :
        /\ stopPc[s] = "done"
        /\ from_timer[s]
        /\ info[s] = "complete"
        /\ processed[s] # << >>

\* C7: a start that failed leaves no registry entry and no worker, timer or
\* producer task for the identifier.
C7_FailedStartLeavesNothing ==
    \A s \in Sessions :
        startPc[s] = "failed" =>
            /\ s \notin active_sessions
            /\ workerPc[s] = "none"
            /\ timerPc[s] = "none"
            /\ botPc[s] = "none"

\* the producer could not be constructed after the store was initialised
C7_Witness ==
    \E s \in Sessions :
        /\ startPc[s] = "failed"
        /\ info[s] = "active"
        /\ resp.op = "start"
        /\ resp.result = "error"

\* C8: get_stats answers NotAvailable exactly when the store holds no session
\* metadata for the identifier, and for a registered session that has
\* counted no message it answers statistics that are all zero.
C8_StatsAvailability ==
    \A s \in Sessions :
        (resp.op = "stats" /\ resp.sid = s) =>
            /\ resp.result = "NotAvailable" <=> info[s] = "absent"
            /\ (s \in active_sessions /\ processed[s] = << >>) =>
                  /\ resp.result = "ok"
                  /\ resp.stats.messageCount = 0
                  /\ resp.stats.chatterCount = 0
                  /\ resp.stats.topEmotes = 0
                  /\ resp.stats.sentiment =
                        [positive |-> 0, negative |-> 0, neutral |-> 0,
                         positivePct |-> 0, negativePct |-> 0,
                         neutralPct |-> 0]
                  /\ resp.stats.messagesPerMinute = 0

\* statistics were read for a started session with messages still queued
C8_Witness ==
    \E s \in Sessions :
        /\ resp.op = "stats"
        /\ resp.sid = s
        /\ resp.result = "ok"
        /\ s \in active_sessions
        /\ processed[s] = << >>
        /\ queue[s] # << >>

\* C9: the queue never holds more than its capacity, and a message pushed
\* onto a full queue is dropped: the queue keeps its contents and order, the
\* drop is logged, and the producer goes on without an error.
C9_OverflowDropsNewest ==
    /\ [](\A s \in Sessions : Len(queue[s]) <= QueueCap)
    /\ [][\A s \in Sessions :
             (offered'[s] = offered[s] + 1 /\ Len(queue[s]) >= QueueCap) =>
                 /\ queue'[s] = queue[s]
                 /\ retained'[s] = retained[s]
                 /\ Len(dropped'[s]) = Len(dropped[s]) + 1
                 /\ dropped'[s][Len(dropped'[s])].id = offered'[s]
                 /\ botPc'[s] = "running"
                 /\ resp' = NoResp
         ]_vars

\* a message was dropped on a full queue
C9_Witness ==
    \E s \in Sessions :
        /\ dropped[s] # << >>
        /\ Len(queue[s]) = QueueCap
        /\ botPc[s] = "running"

\* the first QueueCap messages filled the queue before the worker took any,
\* and the next one was dropped
Burst(s) ==
    /\ dropped[s] # << >>
    /\ dropped[s][1].id = QueueCap + 1
    /\ dropped[s][1].queued = [i \in 1..QueueCap |-> i]

\* C10: when QueueCap + k messages are pushed before the worker takes one,
\* k are dropped and the worker, by the time it has ended, has processed the
\* QueueCap retained messages in the order they were queued.
C10_RetainedAllProcessed ==
    \A s \in Sessions :
        (Burst(s) /\ workerPc[s] = "done") =>
            /\ Len(processed[s]) >= QueueCap
            /\ SubSeq(processed[s], 1, QueueCap) = [i \in 1..QueueCap |-> i]

\* the number of classifications folded into the sentiment tally of s
Tally(s) ==
    sentiment[s].positive + sentiment[s].negative + sentiment[s].neutral

\* C11: whenever the worker waits for its next message, the sentiment tally
\* of the session sums to the number of messages it has processed.
C11_TallyCountsProcessed ==
    \A s \in Sessions :
        workerPc[s] = "get" => Tally(s) = Len(processed[s])

\* the classified messages of s whose author case-folds to the name u
Folded(s, u) ==
    Cardinality({i \in DOMAIN analysed[s] :
                    lower(analysed[s][i].username) = u})

\* C12: the messages the worker classified are the counted ones in order
\* (the one in flight excepted); the leaderboard score of a lower-cased name
\* is the number of classified messages whose author case-folds to it, a
\* name that is not lower-cased has no entry, chatterCount is the number of
\* distinct case-folded authors, and no score ever decreases.
C12_ChatterCaseFolded ==
    /\ [](\A s \in Sessions :
             /\ Len(processed[s]) - Len(analysed[s]) \in {0, 1}
             /\ Ids(analysed[s]) = SubSeq(processed[s], 1, Len(analysed[s]))
             /\ \A u \in Usernames :
                   /\ chatters[s][lower(u)] = Folded(s, lower(u))
                   /\ u # lower(u) => chatters[s][u] = 0
             /\ Stats(s, 0).chatterCount =
                   Cardinality({lower(analysed[s][i].username) :
                                   i \in DOMAIN analysed[s]}))
    /\ [][\A s \in Sessions : \A u \in Usernames :
             chatters'[s][u] >= chatters[s][u]]_vars

\* two messages whose authors differ only in case share one entry of score 2
C12_Witness ==
    \E s \in Sessions :
        /\ \E i, j \in DOMAIN analysed[s] :
              /\ analysed[s][i].username = "Alice"
              /\ analysed[s][j].username = "alice"
        /\ chatters[s]["alice"] = 2
        /\ Stats(s, 0).chatterCount = 1

\* the last n entries of a sequence, or all of it when it has fewer
Newest(entries, n) ==
    LET len == Len(entries)
        k == IF len > n THEN n ELSE len IN
    [i \in 1..k |-> entries[len - k + i]]

\* C13: the timeline of a session never holds more than TimelineCap entries,
\* and they are the most recently appended ones in the order of the appends,
\* message timestamps and shutdown entries alike.
C13_TimelineKeepsNewest ==
    \A s \in Sessions :
        /\ Len(timeline[s]) <= TimelineCap
        /\ timeline[s] = Newest(appended[s], TimelineCap)

\* more entries were appended than the cap, the last one by the shutdown
C13_Witness ==
    \E s \in Sessions :
        /\ Len(appended[s]) > TimelineCap
        /\ Len(timeline[s]) = TimelineCap
        /\ appended[s][Len(appended[s])].kind = "shutdown"
        /\ appended[s][1].kind = "message"

\* C14: the three percentages get_stats reports (in hundredths) are each
\* between 0 and 100; for a tally that is not empty they add up to 100 within
\* the rounding of the three (one hundredth), and for an empty tally the
\* denominator is 1 and all three are 0.
C14_PercentagesSumTo100 ==
    resp.op = "stats" =>
        LET f == resp.stats.sentiment
            sum == f.positivePct + f.negativePct + f.neutralPct IN
        /\ f.positive = sentiment[resp.sid].positive
        /\ f.negative = sentiment[resp.sid].negative
        /\ f.neutral = sentiment[resp.sid].neutral
        /\ \A pct \in {f.positivePct, f.negativePct, f.neutralPct} :
              pct >= 0 /\ pct <= 10000
        /\ Tally(resp.sid) > 0 => sum \in 9999..10001
        /\ Tally(resp.sid) = 0 => sum = 0

\* a tally of thirds was formatted as 33.33 three times: the sum is 99.99
C14_Witness ==
    /\ resp.op = "stats"
    /\ Tally(resp.sid) > 0
    /\ resp.stats.sentiment.positivePct = 3333
    /\ resp.stats.sentiment.negativePct = 3333
    /\ resp.stats.sentiment.neutralPct = 3333

\* the step changes something the program holds for session s: its registry
\* entry, queue, tasks and their locals, store namespace or 7TV lookup
Changes(s) ==
    \/ (s \in active_sessions') # (s \in active_sessions)
    \/ (s \in session_emotes') # (s \in session_emotes)
    \/ queue'[s] # queue[s]
    \/ workerPc'[s] # workerPc[s]
    \/ message'[s] # message[s]
    \/ analysis'[s] # analysis[s]
    \/ custom_emotes'[s] # custom_emotes[s]
    \/ timerPc'[s] # timerPc[s]
    \/ botPc'[s] # botPc[s]
    \/ startPc'[s] # startPc[s]
    \/ stopPc'[s] # stopPc[s]
    \/ from_timer'[s] # from_timer[s]
    \/ loadPc'[s] # loadPc[s]
    \/ info'[s] # info[s]
    \/ messages'[s] # messages[s]
    \/ chatters'[s] # chatters[s]
    \/ emotes'[s] # emotes[s]
    \/ emote_names'[s] # emote_names[s]
    \/ emote_images'[s] # emote_images[s]
    \/ sentiment'[s] # sentiment[s]
    \/ timeline'[s] # timeline[s]

\* the sessions of which the step changes something
Touched == {s \in Sessions : Changes(s)}

\* C15: a step of one session (its start, the work on its messages, its
\* shutdown and the cancelling of its tasks, a request naming it) leaves the
\* registry entry, the queue, the tasks, the store namespace and the 7TV
\* lookup of every other session as they are: no step changes something of
\* two sessions, and a step answering a request changes nothing of a session
\* the request does not name.
C15_OtherSessionUntouched ==
    [][/\ Cardinality(Touched) <= 1
       /\ resp'.op # "none" => Touched \subseteq {resp'.sid}
      ]_vars

\* one session was stopped and its timer cancelled while the other, started
\* beside it, is still registered, has its tasks running and its message
\* counted
C15_Witness ==
    \E s, t \in Sessions :
        /\ s # t
        /\ stopPc[s] = "done"
        /\ timerPc[s] = "cancelled"
        /\ t \in active_sessions
        /\ info[t] = "active"
        /\ workerPc[t] = "get"
        /\ timerPc[t] = "sleeping"
        /\ botPc[t] = "running"
        /\ messages[t] = 1

\* C16: once the session of a statistics socket has been shut down and
\* dropped from the registry, the loop of the socket eventually ends.
C16_SocketEndsAfterDrop ==
    \A s \in Sessions :
        (socketPc[s] \in {"stats", "sleep"} /\ stopPc[s] = "done")
            ~> socketPc[s] = "closed"

\* C17: a worker that met an error on a store call is still running while
\* its session has not been stopped.
C17_WorkerSurvivesError ==
    \A s \in Sessions :
        (errors[s] > 0 /\ stopPc[s] = "idle") => workerPc[s] # "done"

\* C18: before the shutdown, whenever the worker waits for its next message,
\* the entries appended to the timeline are one per processed message, each
\* carrying the timestamp of its message, in the order of processing.
C18_TimelineEntryPerEvent ==
    \A s \in Sessions :
        (workerPc[s] = "get" /\ stopPc[s] = "idle") =>
            /\ Ids(appended[s]) = processed[s]
            /\ \A i \in DOMAIN appended[s] : appended[s][i].kind = "message"

\* C19: while the worker holds the drain sentinel no step writes to the
\* store namespace of its session.
C19_SentinelWritesNothing ==
    [][\A s \in Sessions :
          message[s] = None =>
              /\ messages'[s] = messages[s]
              /\ chatters'[s] = chatters[s]
              /\ emotes'[s] = emotes[s]
              /\ emote_names'[s] = emote_names[s]
              /\ emote_images'[s] = emote_images[s]
              /\ sentiment'[s] = sentiment[s]
              /\ timeline'[s] = timeline[s]
      ]_vars

\* the references to emote e in the merged emote lists of the classified
\* messages
RECURSIVE ReferencesIn(_, _)
ReferencesIn(msgs, e) ==
    IF msgs = << >> THEN 0
    ELSE Cardinality({j \in DOMAIN Head(msgs).refs :
                         Head(msgs).refs[j][1] = e})
         + ReferencesIn(Tail(msgs), e)

References(s, e) == ReferencesIn(analysed[s], e)

\* C20: whenever the worker is between two messages or has ended, the count
\* of every emote identifier in the store is the number of references to it
\* in the merged emote lists of the messages processed.
C20_EmoteCountsMatchReferences ==
    \A s \in Sessions :
        workerPc[s] \in {"get", "done"} =>
            \A e \in EmoteIds : emotes[s][e] = References(s, e)

\* C21: in every shutdown the worker has ended before the bot is shut down,
\* the bot task has ended before the record is closed, the record is closed
\* before the shutdown entry is appended, the 7TV lookup is dropped last, and
\* once the record is closed nothing but the shutdown entry is written to
\* the namespace.
C21_ShutdownOrder ==
    /\ [](\A s \in Sessions :
             /\ stopPc[s] \in {"bot_shutdown", "await_bot", "close",
                               "timeline", "done"} => workerPc[s] = "done"
             /\ stopPc[s] \in {"close", "timeline", "done"} =>
                   botPc[s] = "done"
             /\ info[s] \in Terminal <=> stopPc[s] \in {"timeline", "done"}
             /\ ShutdownEntries(s) = 1 <=> stopPc[s] = "done")
    /\ [][\A s \in Sessions :
             /\ (botPc[s] = "running" /\ botPc'[s] = "done") =>
                   workerPc[s] = "done"
             /\ (info[s] = "active" /\ info'[s] \in Terminal) =>
                   botPc[s] = "done"
             /\ ShutdownEntries(s)' > ShutdownEntries(s) =>
                   info[s] \in Terminal
             /\ (s \in session_emotes /\ s \notin session_emotes') =>
                   /\ info[s] \in Terminal
                   /\ ShutdownEntries(s)' = 1
             /\ info[s] \in Terminal =>
                   /\ messages'[s] = messages[s]
                   /\ chatters'[s] = chatters[s]
                   /\ emotes'[s] = emotes[s]
                   /\ emote_names'[s] = emote_names[s]
                   /\ emote_images'[s] = emote_images[s]
                   /\ sentiment'[s] = sentiment[s]
                   /\ info'[s] = info[s]
                   /\ timeline'[s] # timeline[s] =>
                         ShutdownEntries(s)' = ShutdownEntries(s) + 1
         ]_vars

\* a shutdown that drained the queue through the sentinel has finished and
\* dropped the loaded 7TV lookup
C21_Witness ==
    \E s \in Sessions :
        /\ stopPc[s] = "done"
        /\ processed[s] # << >>
        /\ loadPc[s] = "done"
        /\ s \notin session_emotes
        /\ dropped[s] = << >>

\* C22: the step that takes a session out of the registry queues the
\* sentinel when the queue has room and cancels the worker when it is full,
\* and goes on to wait for the worker either way; the worker then ends and
\* the shutdown runs to its end.
C22_SentinelOrCancel ==
    /\ [][\A s \in Sessions :
             (s \in active_sessions /\ s \notin active_sessions') =>
                 /\ stopPc'[s] = "await_worker"
                 /\ IF Len(queue[s]) < QueueCap
                    THEN /\ queue'[s] = Append(queue[s], None)
                         /\ workerPc'[s] = workerPc[s]
                         /\ s \notin cancelled'
                    ELSE /\ queue'[s] = queue[s]
                         /\ workerPc'[s] = "done"
                         /\ s \in cancelled'
         ]_vars
    /\ \A s \in Sessions : stopPc[s] = "await_worker" ~> workerPc[s] = "done"
    /\ \A s \in Sessions : stopPc[s] = "await_worker" ~> stopPc[s] = "done"

\* a shutdown that found the queue full and cancelled the worker has finished
C22_Witness ==
    \E s \in Sessions :
        /\ s \in cancelled
        /\ stopPc[s] = "done"
        /\ Len(queue[s]) = QueueCap

\* C23: a stop of a session whose worker has ended (by an exception or by
\* cancellation) or whose bot task has ended with a connection error still
\* runs to its end: worker and bot joined, the status closed once, one
\* shutdown entry appended.
C23_StopAfterTaskExit ==
    /\ \A s \in Sessions : stopPc[s] = "await_worker" ~> stopPc[s] = "done"
    /\ [](\A s \in Sessions :
             stopPc[s] = "done" =>
                 /\ workerPc[s] = "done"
                 /\ botPc[s] \in {"done", "failed"}
                 /\ timerPc[s] \in {"cancelled", "done"}
                 /\ info[s] = status(from_timer[s])
                 /\ closes[s] = 1
                 /\ ShutdownEntries(s) = 1)

\* a shutdown has finished for a session whose worker ended on a store error
\* and whose bot ended on a connection error
C23_Witness ==
    \E s \in Sessions :
        /\ stopPc[s] = "done"
        /\ errors[s] > 0
        /\ botPc[s] = "failed"

\* C24: the wait for the worker is bounded: a shutdown that waits for the
\* worker goes on to the remaining steps and returns, also when the worker
\* is suspended in a store call that never completes.
C24_WorkerWaitBounded ==
    \A s \in Sessions : stopPc[s] = "await_worker" ~> stopPc[s] = "done"

\* C25: once an explicit stop has taken the session, the timer never starts
\* a shutdown of it: a timer that fires during or after the stop ends without
\* a write to the store or to the registry, the status "stopped" is never
\* replaced, and when the stop has completed the timer is cancelled or done.
C25_TimerAfterExplicitStop ==
    /\ [](\A s \in Sessions :
             (stopPc[s] = "done" /\ ~from_timer[s]) =>
                 /\ timerPc[s] \in {"cancelled", "done"}
                 /\ info[s] = "stopped")
    /\ [][\A s \in Sessions :
             /\ (stopPc[s] # "idle" /\ ~from_timer[s]) =>
                   /\ ~from_timer'[s]
                   /\ timerPc'[s] # "stopping"
                   /\ timerPc[s] \in {"cancelled", "done"} =>
                         timerPc'[s] = timerPc[s]
             /\ (stopPc[s] # "idle" /\ ~from_timer[s]
                   /\ timerPc[s] = "sleeping" /\ timerPc'[s] = "done") =>
                   UNCHANGED <<storeVars, active_sessions, stopPc, queue,
                               workerPc, botPc, closes, appended, cancelled>>
             /\ info[s] = "stopped" => info'[s] = "stopped"
         ]_vars

\* an explicit stop has completed and the timer fired while it ran
C25_Witness ==
    \E s \in Sessions :
        /\ stopPc[s] = "done"
        /\ ~from_timer[s]
        /\ timerPc[s] = "done"
        /\ info[s] = "stopped"

\* C26: a session that is in the registry has its worker, its timer and its
\* bot task running.
C26_RegisteredTasksRunning ==
    \A s \in active_sessions :
        /\ workerPc[s] \notin {"none", "done"}
        /\ botPc[s] = "running"
        /\ timerPc[s] = "sleeping"

\* the sum of the counts of a leaderboard
RECURSIVE SumOfCounts(_)
SumOfCounts(board) ==
    IF DOMAIN board = {} THEN 0
    ELSE LET u == CHOOSE v \in DOMAIN board : TRUE IN
         board[u] + SumOfCounts([w \in DOMAIN board \ {u} |-> board[w]])

\* C27: a snapshot never shows a partly applied event: the message count it
\* reports is the sum of the counts of its chatters.
C27_SnapshotSeesWholeEvents ==
    (resp # NoResp /\ resp.op = "stats" /\ resp.result = "ok") =>
        resp.stats.messageCount = SumOfCounts(resp.stats.topChatters)

\* C28: every write to the namespace of a session refreshes the expiry of
\* all its keys: each key that exists has an expiry, counted from the latest
\* write to the namespace.
C28_KeysShareOneTTL ==
    \A s \in Sessions : \A k \in Keys : ttl[s][k] \in {"missing", "latest"}

\* C29: after the shutdown of a session has completed the custom-emote cache
\* holds no entry for it.
C29_NoCacheEntryAfterShutdown ==
    \A s \in Sessions : stopPc[s] = "done" => s \notin session_emotes

\* the name the first classified message that refers to e gives it
RECURSIVE FirstNameIn(_, _)
FirstNameIn(entries, e) ==
    IF entries = << >> THEN ""
    ELSE LET refs == Head(entries).refs
             hits == {i \in DOMAIN refs : refs[i][1] = e} IN
         IF hits # {}
         THEN refs[CHOOSE i \in hits : \A j \in hits : i <= j][2]
         ELSE FirstNameIn(Tail(entries), e)

\* C30: the name recorded for an emote identifier is the one the first
\* message that referred to it carried (for the identifiers of Twitch, whose
\* names come from the text of the messages; a 7TV identifier has the one
\* name of its lookup entry); once recorded it is never replaced, whatever
\* name later messages carry, and the count of the emote never goes down and
\* goes up with every reference that is counted.
C30_FirstNameWins ==
    /\ [](\A s \in Sessions : \A e \in EmoteIds :
             (isdigit(e) /\ emote_names[s][e] # "") =>
                 emote_names[s][e] = FirstNameIn(analysed[s], e))
    /\ [][\A s \in Sessions : \A e \in EmoteIds :
             /\ emote_names[s][e] # "" => emote_names'[s][e] = emote_names[s][e]
             /\ emotes'[s][e] >= emotes[s][e]
             /\ (workerPc[s] = "emotes" /\ workerPc'[s] # "emotes"
                   /\ \E i \in DOMAIN batched_emotes(s) :
                         batched_emotes(s)[i][1] = e) =>
                   /\ emotes'[s][e] > emotes[s][e]
                   /\ emote_names'[s][e] # ""
         ]_vars

\* two messages were counted that give the emote 25 two names, and the
\* first name stands
C30_Witness ==
    \E s \in Sessions :
        /\ stopPc[s] = "idle"
        /\ Len(analysed[s]) = 2
        /\ analysed[s][1].refs = << <<"25", "Kappa">> >>
        /\ analysed[s][2].refs = << <<"25", "Keepo">> >>
        /\ emotes[s]["25"] = 2
        /\ emote_names[s]["25"] = "Kappa"

\* C31: the tasks of a session exist only once its entry is registered: a
\* session with a worker, a timer or a bot task is in the registry unless a
\* stop has taken it out; the timer's lookup and a stop request miss the
\* entry of a started session only after a stop has taken it; and the tasks
\* appear in the same step as the entry.
C31_RegisteredBeforeTasksRun ==
    /\ [](\A s \in Sessions :
             (workerPc[s] # "none" \/ timerPc[s] # "none"
                \/ botPc[s] # "none") =>
                 /\ startPc[s] = "started"
                 /\ s \in active_sessions \/ stopPc[s] # "idle")
    /\ [][\A s \in Sessions :
             /\ (timerPc[s] = "sleeping" /\ timerPc'[s] = "done") =>
                   stopPc[s] # "idle"
             /\ (timerPc[s] = "sleeping" /\ timerPc'[s] = "stopping") =>
                   (s \in active_sessions /\ s \notin active_sessions')
             /\ (resp'.op = "stop" /\ resp'.sid = s
                   /\ resp'.result = "NotFound") =>
                   (startPc[s] = "started" => stopPc[s] # "idle")
             /\ (workerPc[s] = "none" /\ workerPc'[s] # "none") =>
                   (s \notin active_sessions /\ s \in active_sessions')
             /\ (timerPc[s] = "none" /\ timerPc'[s] # "none") =>
                   (s \notin active_sessions /\ s \in active_sessions')
             /\ (botPc[s] = "none" /\ botPc'[s] # "none") =>
                   (s \notin active_sessions /\ s \in active_sessions')
         ]_vars

\* the timer's lookup was the first step taken after the start, and found
\* the entry
C31_Witness ==
    \E s \in Sessions :
        /\ timerPc[s] = "stopping"
        /\ from_timer[s]
        /\ stopPc[s] = "await_worker"
        /\ offered[s] = 0
        /\ loadPc[s] = "loading"

\* C32: while no start and no shutdown of a session is under way, its status
\* in the store is "active" exactly when it is in the registry.
C32_ActiveIffRegistered ==
    \A s \in Sessions :
        (startPc[s] # "initialized" /\ stopPc[s] \in {"idle", "done"}) =>
            (info[s] = "active" <=> s \in active_sessions)

\* C33: the timer task is cancelled only while it sleeps.  A timer that has
\* begun the shutdown has taken the session out of the registry, so every
\* stop request for it is answered NotFound, the shutdown stays the timer's,
\* and the timer task ends only with the last step of the shutdown.
C33_TimerShutdownNotCancelled ==
    /\ [](\A s \in Sessions :
             timerPc[s] = "stopping" =>
                 /\ from_timer[s]
                 /\ s \notin active_sessions
                 /\ stopPc[s] \notin {"idle", "done"})
    /\ [][\A s \in Sessions :
             /\ (timerPc[s] # "cancelled" /\ timerPc'[s] = "cancelled") =>
                   /\ timerPc[s] = "sleeping"
                   /\ ~from_timer[s]
                   /\ stopPc[s] = "await_worker"
             /\ timerPc[s] = "stopping" =>
                   /\ timerPc'[s] \in {"stopping", "done"}
                   /\ timerPc'[s] = "done" <=> stopPc'[s] = "done"
                   /\ from_timer'[s]
                   /\ (resp'.op = "stop" /\ resp'.sid = s) =>
                         (resp'.result = "NotFound"
                            /\ UNCHANGED <<taskVars, storeVars, active_sessions>>)
         ]_vars

\* a stop request arrived while the timer was shutting the session down
C33_Witness ==
    \E s \in Sessions :
        /\ timerPc[s] = "stopping"
        /\ stopPc[s] = "bot_shutdown"
        /\ resp.op = "stop"
        /\ resp.sid = s
        /\ resp.result = "NotFound"

====
